---- MODULE Spec2Model ----
(***************************************************************************)
(* Zaphod engine: the log-format template engine of core/logger.           *)
(*                                                                         *)
(* A format string is a sequence of characters (one-character strings).    *)
(* validateFormatParameters scans it with placeholder_regex, classifies    *)
(* every placeholder and then checks the static tokens against the         *)
(* parameter map.  The function returns a bool; the model also records     *)
(* WHICH "return" statement produced it (named after the comment on that   *)
(* line) and the three token vectors the scan built.                       *)
(***************************************************************************)
EXTENDS Integers, Sequences, FiniteSets, TLC

VARIABLES
    format,       \* validation harness: the format string handed to the validator
    parameters,   \* validation harness: the static parameter map handed to it
    result,       \* validation harness: what the validator returned (NoResult before)
    before,       \* validation harness: the result for the string before an edit
    pc,           \* validation harness: position of the harness
    m_formats,    \* Logger::m_formats
    fault,        \* "none", or the undefined behaviour the Logger ran into
    m_logLevelFlags,  \* Logger::m_logLevelFlags (the mask of the Flags object)
    m_destinations,   \* Logger::m_destinations
    sinkCalls,    \* the calls every destination's sink has received
    called,       \* the last call of the Logger
    flags,        \* Flags harness: Flags::flags of the object under test
    flagsCalled,  \* Flags harness: the last operation, its arguments, the mask before
    formatObject, \* Format harness: the members of the Format object under test
    formatCalled, \* Format harness: the last call, its arguments, the object before
    m_running,    \* App::m_running
    m_initialized,    \* App::m_initialized
    m_windows,    \* App::m_windows: for every window, whether its close flag is set
    onShutdownCalls,  \* the calls of onShutdown since onInitialize last returned true
    appPc,        \* the position of the thread inside App::run, "idle" outside it
    returned,     \* <<v>> for the value v App::run returned last (NoReturn before)
    appCalled     \* the last call of the App from outside its hooks

valVars == <<format, parameters, result, before, pc>>
loggerVars == <<m_formats, fault, m_logLevelFlags, m_destinations, sinkCalls,
                called>>
flagVars == <<flags, flagsCalled>>
formatVars == <<formatObject, formatCalled>>
appVars == <<m_running, m_initialized, m_windows, onShutdownCalls, appPc,
             returned, appCalled>>
vars == <<format, parameters, result, before, pc, m_formats, fault,
          m_logLevelFlags, m_destinations, sinkCalls, called,
          flags, flagsCalled, formatObject, formatCalled,
          m_running, m_initialized, m_windows, onShutdownCalls, appPc,
          returned, appCalled>>

----------------------------------------------------------------------------
(* Bounds of the model. *)

\* Longest format string of the validation harness, in pieces.
MaxPieces == 3
\* Longest format string of the escape harness (before the edit), in pieces.
MaxEscPieces == 2
\* Longest format list of the Logger.
MaxFormats == 3
\* Longest list of levels handed to the constructor of Flags.
MaxLevels == 2
\* Most calls a sink receives.
MaxDelivered == 1
\* The windows of the App: every run that passes its first test adds one.
MaxWindows == 2

----------------------------------------------------------------------------
(* Characters and token names. *)

UpperChars == {"A", "B", "C", "D", "E", "F", "G", "H", "I", "J", "K", "L", "M",
               "N", "O", "P", "Q", "R", "S", "T", "U", "V", "W", "X", "Y", "Z"}
DigitChars == {"0", "1", "2", "3", "4", "5", "6", "7", "8", "9"}
\* The characters of group 4 of placeholder_regex: upper case, digit, underscore.
NameChars == UpperChars \cup DigitChars \cup {"_"}

MESSAGE == <<"M", "E", "S", "S", "A", "G", "E">>
LEVEL == <<"L", "E", "V", "E", "L">>
TIME == <<"T", "I", "M", "E">>
specialTokenSet == {MESSAGE, LEVEL, TIME}

\* Names that are not reserved, used by the inputs.
P1 == <<"P", "1">>
MES_SAGE == <<"M", "E", "S", "_", "S", "A", "G", "E">>
EmptyName == <<>>

----------------------------------------------------------------------------
(* placeholder_regex: an optional backslash (group 1), percent and open   *)
(* brace, an optional "!" (group 2), an optional star (group 3), a run of *)
(* name characters (group 4, possibly empty), close brace and percent.    *)

\* The character at position i, "" past either end of the string.
CharAt(s, i) == IF i >= 1 /\ i <= Len(s) THEN s[i] ELSE ""

\* Group 4 is greedy: the first position at or after j that holds no name
\* character.  No name character is "}", so no shorter name can match.
RECURSIVE NameEnd(_, _)
NameEnd(s, j) == IF CharAt(s, j) \in NameChars THEN NameEnd(s, j + 1) ELSE j

\* An attempt to match placeholder_regex with the match starting at i.
MatchAt(s, i) ==
    LET esc == CharAt(s, i) = "\\"
        j1 == IF esc THEN i + 1 ELSE i
        opened == CharAt(s, j1) = "%" /\ CharAt(s, j1 + 1) = "{"
        j2 == j1 + 2
        ovr == CharAt(s, j2) = "!"
        j3 == IF ovr THEN j2 + 1 ELSE j2
        dyn == CharAt(s, j3) = "*"
        j4 == IF dyn THEN j3 + 1 ELSE j3
        j5 == NameEnd(s, j4)
        closed == CharAt(s, j5) = "}" /\ CharAt(s, j5 + 1) = "%"
    IN  [matched |-> opened /\ closed,
         esc |-> esc, ovr |-> ovr, dyn |-> dyn,
         name |-> SubSeq(s, j4, j5 - 1),
         start |-> i, end |-> j5 + 2]

\* std::sregex_iterator: the leftmost match at or after i, then the next
\* one after its end.
RECURSIVE Matches(_, _)
Matches(s, i) ==
    IF i > Len(s) THEN <<>>
    ELSE LET m == MatchAt(s, i)
         IN  IF m.matched THEN <<m>> \o Matches(s, m.end)
             ELSE Matches(s, i + 1)

----------------------------------------------------------------------------
(* validateFormatParameters: the scan loop. *)

\* std::find(v.begin(), v.end(), x) != v.end()
Found(v, x) == \E k \in 1..Len(v) : v[k] = x

\* The scan's locals, and "ret": "none" while the loop runs, else the name
\* of the "return false" that ended it.
ScanStart ==
    [staticTokens |-> <<>>, dynamicTokens |-> <<>>, specialTokens |-> <<>>,
     ret |-> "none"]

Fail(st, why) == [st EXCEPT !.ret = why]

\* Lines 82-90: the token is static.
StaticFallThrough(st, m) ==
    IF ~Found(st.dynamicTokens, m.name)
    THEN IF ~Found(st.staticTokens, m.name)
         THEN [st EXCEPT !.staticTokens = Append(@, m.name)]
         ELSE Fail(st, "DuplicateToken")
    ELSE Fail(st, "DuplicateToken")

\* A variant of the branch below that lost "else return false" of line 46:
\* a bare dynamic marker on a reserved name makes the token dynamic.
ReservedDynamicBranch_NoMarkerCheck(st, m) ==
    IF ~Found(st.staticTokens, m.name) /\ ~Found(st.specialTokens, m.name)
    THEN IF ~Found(st.dynamicTokens, m.name)
         THEN [st EXCEPT !.dynamicTokens = Append(@, m.name)]
         ELSE Fail(st, "DuplicateToken")
    ELSE Fail(st, "DuplicateToken")

\* Lines 29-47: a reserved name with the dynamic marker.
ReservedDynamicBranch(st, m) ==
    IF m.ovr
    THEN IF ~Found(st.staticTokens, m.name) /\ ~Found(st.specialTokens, m.name)
         THEN IF ~Found(st.dynamicTokens, m.name)
              THEN [st EXCEPT !.dynamicTokens = Append(@, m.name)]
              ELSE Fail(st, "DuplicateToken")
         ELSE Fail(st, "DuplicateToken")
    ELSE Fail(st, "IllegalDynamicMarker")

\* Lines 48-59: a reserved name without the dynamic marker.
ReservedPlainBranch(st, m) ==
    IF ~m.ovr
    THEN IF ~Found(st.specialTokens, m.name)
         THEN [st EXCEPT !.specialTokens = Append(@, m.name)]
         ELSE Fail(st, "DuplicateToken")
    ELSE StaticFallThrough(st, m)

\* A variant of the branch below that lost the check of lines 63-64.
NonReservedBranch_NoOverrideCheck(st, m) ==
    IF m.dyn
    THEN IF ~Found(st.staticTokens, m.name)
         THEN IF ~Found(st.dynamicTokens, m.name)
              THEN [st EXCEPT !.dynamicTokens = Append(@, m.name)]
              ELSE Fail(st, "DuplicateToken")
         ELSE Fail(st, "DuplicateToken")
    ELSE StaticFallThrough(st, m)

\* Lines 61-80: a name that is not reserved.
NonReservedBranch(st, m) ==
    IF m.ovr THEN Fail(st, "IllegalOverride")
    ELSE IF m.dyn
    THEN IF ~Found(st.staticTokens, m.name)
         THEN IF ~Found(st.dynamicTokens, m.name)
              THEN [st EXCEPT !.dynamicTokens = Append(@, m.name)]
              ELSE Fail(st, "DuplicateToken")
         ELSE Fail(st, "DuplicateToken")
    ELSE StaticFallThrough(st, m)

\* Lines 27-90: one un-escaped match.
ClassifyToken(st, m) ==
    IF m.name \in specialTokenSet
    THEN IF m.dyn THEN ReservedDynamicBranch(st, m)
         ELSE ReservedPlainBranch(st, m)
    ELSE NonReservedBranch(st, m)

\* A variant of the loop body below that lost the skip of lines 24-25.
ScanStep_NoEscapeSkip(st, m) == ClassifyToken(st, m)

\* Lines 22-25 and on: the body of the loop for one match.
ScanStep(st, m) ==
    IF m.esc THEN st     \* Skip escaped placeholders
    ELSE ClassifyToken(st, m)

\* Lines 20-91: the loop, left by the first "return false".
RECURSIVE ScanLoop(_, _, _)
ScanLoop(st, ms, k) ==
    IF k > Len(ms) \/ st.ret # "none" THEN st
    ELSE ScanLoop(ScanStep(st, ms[k]), ms, k + 1)

----------------------------------------------------------------------------
(* validateFormatParameters: the checks after the scan. *)

\* Lines 106-114: the placeholder is a key of a non-empty parameter map.
ReservedInParameters(placeholder) ==
    placeholder = MESSAGE \/ placeholder = LEVEL \/ placeholder = TIME

\* A variant of the loop below that lost the final check of lines 116-119.
RECURSIVE PostScanLoop_NoMessageCheck(_, _, _, _)
PostScanLoop_NoMessageCheck(staticTokens, params, k, isMessageInFormat) ==
    IF k > Len(staticTokens) THEN "ok"
    ELSE LET placeholder == staticTokens[k]
         IN  IF Len(placeholder) = 0 THEN "EmptyToken"
             ELSE IF placeholder \notin DOMAIN params THEN "MissingParameter"
             ELSE IF Cardinality(DOMAIN params) # 0
                     /\ ReservedInParameters(placeholder)
             THEN "ReservedNameMisuse"
             ELSE PostScanLoop_NoMessageCheck(staticTokens, params, k + 1,
                                              isMessageInFormat)

\* A variant of the loop below that lost the checks of lines 106-114.
RECURSIVE PostScanLoop_NoReservedCheck(_, _, _, _)
PostScanLoop_NoReservedCheck(staticTokens, params, k, isMessageInFormat) ==
    IF k > Len(staticTokens)
    THEN IF isMessageInFormat THEN "ok" ELSE "MissingMessage"
    ELSE LET placeholder == staticTokens[k]
             isMsg == isMessageInFormat \/ placeholder = MESSAGE
         IN  IF Len(placeholder) = 0 THEN "EmptyToken"
             ELSE IF placeholder \notin DOMAIN params THEN "MissingParameter"
             ELSE PostScanLoop_NoReservedCheck(staticTokens, params, k + 1,
                                               isMsg)

\* A variant of the loop below that lost the check of lines 102-105.
RECURSIVE PostScanLoop_NoParameterCheck(_, _, _, _)
PostScanLoop_NoParameterCheck(staticTokens, params, k, isMessageInFormat) ==
    IF k > Len(staticTokens)
    THEN IF isMessageInFormat THEN "ok" ELSE "MissingMessage"
    ELSE LET placeholder == staticTokens[k]
             isMsg == isMessageInFormat \/ placeholder = MESSAGE
         IN  IF Len(placeholder) = 0 THEN "EmptyToken"
             ELSE IF Cardinality(DOMAIN params) # 0
                     /\ ReservedInParameters(placeholder)
             THEN "ReservedNameMisuse"
             ELSE PostScanLoop_NoParameterCheck(staticTokens, params, k + 1,
                                                isMsg)

\* Lines 94-115: the loop over staticTokens; isMessageInFormat is its
\* accumulator.  Returns the name of the return statement reached.
RECURSIVE PostScanLoop(_, _, _, _)
PostScanLoop(staticTokens, params, k, isMessageInFormat) ==
    IF k > Len(staticTokens)
    THEN IF isMessageInFormat THEN "ok" ELSE "MissingMessage"
    ELSE LET placeholder == staticTokens[k]
             isMsg == isMessageInFormat \/ placeholder = MESSAGE
         IN  IF Len(placeholder) = 0 THEN "EmptyToken"
             ELSE IF placeholder \notin DOMAIN params THEN "MissingParameter"
             ELSE IF Cardinality(DOMAIN params) # 0
                     /\ ReservedInParameters(placeholder)
             THEN "ReservedNameMisuse"
             ELSE PostScanLoop(staticTokens, params, k + 1, isMsg)

\* Lines 93-119.
PostScan(st, params) ==
    IF st.ret # "none" THEN st
    ELSE [st EXCEPT !.ret = PostScanLoop(st.staticTokens, params, 1, FALSE)]

\* Lines 9-120.  "valid" is the bool the function returns; the rest is what
\* the call went through: the return statement reached, the matches the
\* iterator produced and the three vectors as the call left them.
validateFormatParameters(fmt, params) ==
    LET ms == Matches(fmt, 1)
        st == PostScan(ScanLoop(ScanStart, ms, 1), params)
    IN  [valid |-> st.ret = "ok",
         reason |-> st.ret,
         matches |-> ms,
         staticTokens |-> st.staticTokens,
         dynamicTokens |-> st.dynamicTokens,
         specialTokens |-> st.specialTokens]

----------------------------------------------------------------------------
(* Inputs of the validation harness. *)

\* The text of a placeholder, as a caller writes it.
Placeholder(esc, ovr, dyn, name) ==
    (IF esc THEN <<"\\">> ELSE <<>>) \o <<"%", "{">>
    \o (IF ovr THEN <<"!">> ELSE <<>>) \o (IF dyn THEN <<"*">> ELSE <<>>)
    \o name \o <<"}", "%">>

\* Every marker combination of MESSAGE, TIME and P1, LEVEL with one marker,
\* the empty name with and without the dynamic marker, and a lone backslash
\* (literal text, which escapes the placeholder that follows it).
Pieces ==
    {Placeholder(FALSE, o, d, n) : o \in BOOLEAN, d \in BOOLEAN,
                                   n \in {MESSAGE, TIME, P1}}
    \cup {Placeholder(FALSE, TRUE, FALSE, LEVEL),
          Placeholder(FALSE, FALSE, TRUE, LEVEL)}
    \cup {Placeholder(FALSE, FALSE, d, EmptyName) : d \in BOOLEAN}
    \cup {<<"\\">>}

\* The strings made of at most n pieces.
RECURSIVE Concats(_, _)
Concats(pieces, n) ==
    IF n = 0 THEN {<<>>}
    ELSE LET shorter == Concats(pieces, n - 1)
         IN  shorter \cup {f \o p : f \in shorter, p \in pieces}

\* The example format of claim C2: "[%{LEVEL}%][%{TIME}%]: %{MESSAGE}%"
BracketFormat ==
    <<"[">> \o Placeholder(FALSE, FALSE, FALSE, LEVEL) \o <<"]", "[">>
    \o Placeholder(FALSE, FALSE, FALSE, TIME) \o <<"]", ":", " ">>
    \o Placeholder(FALSE, FALSE, FALSE, MESSAGE)

\* The example format of claim C6:
\* "%{TIME}% [\%{LEVEL}%]: %{MESSAGE}% %{*P1}% %{!LEVEL}%"
ContradictoryFormat ==
    Placeholder(FALSE, FALSE, FALSE, TIME) \o <<" ", "[">>
    \o Placeholder(TRUE, FALSE, FALSE, LEVEL) \o <<"]", ":", " ">>
    \o Placeholder(FALSE, FALSE, FALSE, MESSAGE) \o <<" ">>
    \o Placeholder(FALSE, FALSE, TRUE, P1) \o <<" ">>
    \o Placeholder(FALSE, TRUE, FALSE, LEVEL)

\* SimpleLogger::defaultFormat: the same with MES_SAGE for MESSAGE, and its
\* parameter map.
defaultFormatString ==
    Placeholder(FALSE, FALSE, FALSE, TIME) \o <<" ", "[">>
    \o Placeholder(TRUE, FALSE, FALSE, LEVEL) \o <<"]", ":", " ">>
    \o Placeholder(FALSE, FALSE, FALSE, MES_SAGE) \o <<" ">>
    \o Placeholder(FALSE, FALSE, TRUE, P1) \o <<" ">>
    \o Placeholder(FALSE, TRUE, FALSE, LEVEL)
defaultParameters == (MES_SAGE :> "A") @@ (LEVEL :> "IN")
defaultFormat ==
    [formatString |-> defaultFormatString, parameters |-> defaultParameters]

ParamKeys == {MESSAGE, LEVEL, TIME, P1}
ParameterMaps == {[k \in K |-> "v"] : K \in SUBSET ParamKeys}

\* The formats the specification and the sources spell out, with every
\* parameter map, and SimpleLogger::defaultFormat with its own.
ExampleInputs ==
    ({BracketFormat, ContradictoryFormat} \X ParameterMaps)
    \cup {<<defaultFormatString, defaultParameters>>}

NoResult ==
    [valid |-> FALSE, reason |-> "not run", matches |-> <<>>,
     staticTokens |-> <<>>, dynamicTokens |-> <<>>, specialTokens |-> <<>>]

----------------------------------------------------------------------------
(* The validation harness: one call of validateFormatParameters. *)

ValIdle ==
    /\ format = <<>>
    /\ parameters = <<>>
    /\ result = NoResult
    /\ before = NoResult
    /\ pc = "idle"

ValInit ==
    /\ \/ format \in Concats(Pieces, MaxPieces) /\ parameters \in ParameterMaps
       \/ \E input \in ExampleInputs :
              format = input[1] /\ parameters = input[2]
    /\ result = NoResult
    /\ before = NoResult
    /\ pc = "input"

Validate ==
    /\ pc = "input"
    /\ result' = validateFormatParameters(format, parameters)
    /\ pc' = "validated"
    /\ UNCHANGED <<format, parameters, before>>
    /\ UNCHANGED <<loggerVars, flagVars, formatVars, appVars>>

----------------------------------------------------------------------------
(* The escape harness: the same call on a string and on the string with   *)
(* one escaped placeholder more, or one less.                              *)

\* The escaped placeholders the harness inserts: a reserved name, a
\* reserved name with a bare dynamic marker, an override of a name that is
\* not reserved, and the empty name.
EscapedInserts ==
    {Placeholder(TRUE, FALSE, FALSE, MESSAGE),
     Placeholder(TRUE, FALSE, TRUE, LEVEL),
     Placeholder(TRUE, TRUE, FALSE, P1),
     Placeholder(TRUE, FALSE, FALSE, EmptyName)}

\* The parameter maps of the escape harness.
EscParameterMaps ==
    {[k \in K |-> "v"] : K \in {{}, {P1}, {LEVEL, TIME}, ParamKeys}}

\* The pieces of the escape harness: escaped placeholders too.
EscPieces ==
    Pieces \cup {Placeholder(TRUE, FALSE, FALSE, TIME),
                 Placeholder(TRUE, TRUE, TRUE, P1)}

\* The gaps of s (after its first p characters) that do not lie strictly
\* inside one of its placeholders, between its first and last character.
InsertPoints(s) ==
    LET ms == Matches(s, 1)
        inside == UNION {ms[k].start .. (ms[k].end - 2) : k \in 1..Len(ms)}
    IN  (0..Len(s)) \ inside

InsertAt(s, p, e) == SubSeq(s, 1, p) \o e \o SubSeq(s, p + 1, Len(s))
RemoveSpan(s, start, end) == SubSeq(s, 1, start - 1) \o SubSeq(s, end, Len(s))

EscInit ==
    /\ format \in Concats(EscPieces, MaxEscPieces)
    /\ parameters \in EscParameterMaps
    /\ result = NoResult
    /\ before = NoResult
    /\ pc = "input"

\* Insert the escaped placeholder e at the gap p of the string and validate
\* again.
InsertEscaped(p, e) ==
    /\ pc = "validated"
    /\ before' = result
    /\ format' = InsertAt(format, p, e)
    /\ result' = validateFormatParameters(format', parameters)
    /\ pc' = "inserted"
    /\ UNCHANGED <<parameters, loggerVars, flagVars, formatVars, appVars>>

\* Remove the k-th placeholder of the string, an escaped one (unless the
\* text around it closes up into a placeholder) and validate again.
RemoveEscaped(k) ==
    LET ms == Matches(format, 1)
        shorter == RemoveSpan(format, ms[k].start, ms[k].end)
    IN  /\ pc = "validated"
        /\ k <= Len(ms)
        /\ ms[k].esc
        /\ (ms[k].start - 1) \in InsertPoints(shorter)
        /\ before' = result
        /\ format' = shorter
        /\ result' = validateFormatParameters(format', parameters)
        /\ pc' = "removed"
        /\ UNCHANGED <<parameters, loggerVars, flagVars, formatVars, appVars>>

----------------------------------------------------------------------------
(* util/flags.h: Flags<Flag>, with Flag = Logger::LogLevel.                *)
(*                                                                         *)
(* The member "flags" is a uint32_t.  It is modelled bit by bit, as the    *)
(* set of the positions (0..31) of its 1 bits: | is union, & is            *)
(* intersection, ~ is the complement within 0..31, and the mask is 0 when  *)
(* the set is empty.                                                       *)

\* enum class LogLevel : uint32_t, in declaration order.
LogLevel == {"EMPTY", "INFO", "DEBUG", "WARN", "ERROR", "FATAL"}

\* static_cast<uint32_t>(flag)
Underlying(flag) ==
    CASE flag = "EMPTY" -> 0
      [] flag = "INFO" -> 1
      [] flag = "DEBUG" -> 2
      [] flag = "WARN" -> 3
      [] flag = "ERROR" -> 4
      [] flag = "FATAL" -> 5

BitPositions == 0..31

\* (1 << static_cast<uint32_t>(flag))
Shifted(flag) == {Underlying(flag)}

\* ~mask, as a uint32_t.
Complement(mask) == BitPositions \ mask

\* Flags(): flags(0)
FlagsDefault == {}

\* Flags(uint32_t flags): flags(flags)
FlagsFromMask(mask) == mask

\* Flags(std::vector<Flag> flags): the loop over the list, from its k-th
\* element on, acc being this->flags.
RECURSIVE FlagsFromListLoop(_, _, _)
FlagsFromListLoop(list, k, acc) ==
    IF k > Len(list) THEN acc
    ELSE FlagsFromListLoop(list, k + 1, acc \cup Shifted(list[k]))

FlagsFromList(list) == FlagsFromListLoop(list, 1, {})

\* updateFlags and operator|= with a uint32_t or with another Flags.
updateFlags(f, mask) == f \cup mask

\* setFlags and operator= with a uint32_t, setFlags with another Flags.
setFlags(f, mask) == mask

\* A variant of setFlag that lost the ~ of line 39.
setFlag_NoComplement(f, flag, enable) ==
    IF enable THEN f \cup Shifted(flag)
    ELSE f \cap Shifted(flag)

setFlag(f, flag, enable) ==
    IF enable THEN f \cup Shifted(flag)
    ELSE f \cap Complement(Shifted(flag))

\* operator|=(const Flag)
OrFlag(f, flag) == f \cup Shifted(flag)

\* operator=(const Flag)
AssignFlag(f, flag) == Shifted(flag)

\* operator&= with a uint32_t or with another Flags.
AndFlags(f, mask) == f \cap mask

\* operator&=(const Flag)
AndFlag(f, flag) == f \cap Shifted(flag)

\* unsetFlags with a uint32_t or with another Flags.
unsetFlags(f, mask) == f \cap Complement(mask)

unsetFlag(f, flag) == f \cap Complement(Shifted(flag))

checkFlags(f, mask) == (f \cap mask) # {}

\* A variant of checkFlag that tests the whole mask and not the bit of the
\* flag.
checkFlag_AnyBit(f, flag) == f # {}

checkFlag(f, flag) == (f \cap Shifted(flag)) # {}

reset(f) == {}

----------------------------------------------------------------------------
(* The Flags harness: one Flags object, any sequence of operations. *)

\* The raw masks a caller hands over: 0, the bit of EMPTY, two levels' bits,
\* bit 6 (one past FATAL) and the top bit.
RawMasks == {{}, {0}, {1, 2}, {6}, {3, 31}}

\* The lists of levels handed to the constructor.
LevelLists == UNION {[1..n -> LogLevel] : n \in 0..MaxLevels}

FlagsCall(op, flag, enable, mask, levels) ==
    [op |-> op, flag |-> flag, enable |-> enable, mask |-> mask,
     levels |-> levels, old |-> flags]

FlagsInit ==
    /\ flags = FlagsDefault
    /\ flagsCalled = [op |-> "Flags", flag |-> "EMPTY", enable |-> FALSE,
                      mask |-> {}, levels |-> <<>>, old |-> {}]

FlagsStep(new, call) ==
    /\ flags' = new
    /\ flagsCalled' = call
    /\ UNCHANGED <<valVars, loggerVars, formatVars, appVars>>

Flags_Default ==
    FlagsStep(FlagsDefault, FlagsCall("Flags", "EMPTY", FALSE, {}, <<>>))

Flags_FromMask(mask) ==
    FlagsStep(FlagsFromMask(mask),
              FlagsCall("FlagsFromMask", "EMPTY", FALSE, mask, <<>>))

Flags_FromList(list) ==
    FlagsStep(FlagsFromList(list),
              FlagsCall("FlagsFromList", "EMPTY", FALSE, {}, list))

Flags_updateFlags(mask) ==
    FlagsStep(updateFlags(flags, mask),
              FlagsCall("updateFlags", "EMPTY", FALSE, mask, <<>>))

Flags_setFlags(mask) ==
    FlagsStep(setFlags(flags, mask),
              FlagsCall("setFlags", "EMPTY", FALSE, mask, <<>>))

Flags_setFlag(flag, enable) ==
    FlagsStep(setFlag(flags, flag, enable),
              FlagsCall("setFlag", flag, enable, {}, <<>>))

Flags_OrFlag(flag) ==
    FlagsStep(OrFlag(flags, flag), FlagsCall("OrFlag", flag, TRUE, {}, <<>>))

Flags_AssignFlag(flag) ==
    FlagsStep(AssignFlag(flags, flag),
              FlagsCall("AssignFlag", flag, TRUE, {}, <<>>))

Flags_AndFlags(mask) ==
    FlagsStep(AndFlags(flags, mask),
              FlagsCall("AndFlags", "EMPTY", FALSE, mask, <<>>))

Flags_AndFlag(flag) ==
    FlagsStep(AndFlag(flags, flag), FlagsCall("AndFlag", flag, TRUE, {}, <<>>))

Flags_unsetFlags(mask) ==
    FlagsStep(unsetFlags(flags, mask),
              FlagsCall("unsetFlags", "EMPTY", FALSE, mask, <<>>))

Flags_unsetFlag(flag) ==
    FlagsStep(unsetFlag(flags, flag),
              FlagsCall("unsetFlag", flag, FALSE, {}, <<>>))

Flags_reset ==
    FlagsStep(reset(flags), FlagsCall("reset", "EMPTY", FALSE, {}, <<>>))

----------------------------------------------------------------------------
(* Logger::Format: the object and setStaticToken.                          *)
(*                                                                         *)
(* The members are what the constructor's validate call left; validate is  *)
(* declared only, so the harness starts from any object of a bounded set.  *)

\* The values a static token is bound to.
TokenValues == {"v", "w"}

\* The static token maps of the objects: any keys among P1 and LEVEL.
StaticTokenMaps == UNION {[K -> TokenValues] : K \in SUBSET {P1, LEVEL}}

FormatObjects ==
    [m_formatString : {BracketFormat, defaultFormatString},
     m_staticTokens : StaticTokenMaps,
     m_dynamicTokens : {{}, {P1}},
     m_specialTokens : {{MESSAGE}, {MESSAGE, TIME}},
     m_isValid : BOOLEAN]

\* The tokens a caller names: keys of the maps, a reserved name that is
\* not a key, and the empty name.
TokenArguments == {P1, LEVEL, TIME, EmptyName}

FormatIdle ==
    /\ formatObject = [m_formatString |-> <<>>, m_staticTokens |-> <<>>,
                       m_dynamicTokens |-> {}, m_specialTokens |-> {},
                       m_isValid |-> FALSE]
    /\ formatCalled = [op |-> "none", token |-> <<>>, value |-> "",
                       old |-> formatObject]

FormatInit ==
    /\ formatObject \in FormatObjects
    /\ formatCalled = [op |-> "Format", token |-> <<>>, value |-> "",
                       old |-> formatObject]

\* A variant of setStaticToken that lost the test of line 133:
\* m_staticTokens[token] = value.
Format_setStaticToken_Insert(token, value) ==
    /\ formatObject' =
          [formatObject EXCEPT
              !.m_staticTokens =
                  [k \in DOMAIN @ \cup {token} |-> IF k = token THEN value ELSE @[k]]]
    /\ formatCalled' = [op |-> "setStaticToken", token |-> token,
                        value |-> value, old |-> formatObject]
    /\ UNCHANGED <<valVars, loggerVars, flagVars, appVars>>

\* Format::setStaticToken
Format_setStaticToken(token, value) ==
    /\ formatObject' =
          IF token \in DOMAIN formatObject.m_staticTokens
          THEN [formatObject EXCEPT !.m_staticTokens[token] = value]
          ELSE formatObject
    /\ formatCalled' = [op |-> "setStaticToken", token |-> token,
                        value |-> value, old |-> formatObject]
    /\ UNCHANGED <<valVars, loggerVars, flagVars, appVars>>

----------------------------------------------------------------------------
(* Logger: the format list, the level flags, the destinations, log. *)

\* The templates a caller hands to the Logger.
CandidateFormats ==
    {[formatString |-> BracketFormat, parameters |-> <<>>],
     defaultFormat,
     [formatString |-> Placeholder(FALSE, FALSE, FALSE, MESSAGE),
      parameters |-> <<>>],
     [formatString |-> Placeholder(FALSE, TRUE, FALSE, P1),
      parameters |-> (P1 :> "v")],
     [formatString |-> <<":", " ">>, parameters |-> <<>>]}

\* enum class LogDestination
LogDestination == {"CONSOLE", "FILE"}

\* The level masks (LogLevelFlags objects) a caller hands to the Logger.
LoggerMasks == {{}, {1, 2}, {6}}

\* The lists of levels a caller hands to the Logger.
LoggerLevelLists ==
    {<<>>, <<"EMPTY">>, <<"INFO">>, <<"WARN", "ERROR">>, <<"DEBUG", "DEBUG">>}

\* The messages a caller logs.
Messages == {"m"}

NoFormat == [formatString |-> <<>>, parameters |-> <<>>]

\* The calls that take a destination.
DestinationOps == {"addDestination", "removeDestination"}

\* The record of a call of the Logger: the operation and its arguments,
\* the error it reported, the format list, the destinations and the sinks'
\* call counts as they were when it was made, and whether the call repeats
\* the call before it (the same operation on the same destination).
LoggerCall(op, index, fmt, level, destination, message, error) ==
    [op |-> op, index |-> index, fmt |-> fmt, level |-> level,
     destination |-> destination, message |-> message, error |-> error,
     token |-> <<>>, value |-> "",
     formats |-> m_formats, destinations |-> m_destinations,
     sinkCalls |-> sinkCalls,
     repeat |-> /\ op \in DestinationOps
                /\ called.op = op
                /\ called.destination = destination]

\* Logger() = default: no formats, no destinations, no levels.
LoggerInit ==
    /\ m_formats = <<>>
    /\ fault = "none"
    /\ m_logLevelFlags = FlagsDefault
    /\ m_destinations = {}
    /\ sinkCalls = [d \in LogDestination |-> 0]
    /\ called = [op |-> "Logger", index |-> 0, fmt |-> NoFormat,
                 level |-> "EMPTY", destination |-> "CONSOLE",
                 message |-> "", error |-> "none",
                 token |-> <<>>, value |-> "",
                 formats |-> <<>>, destinations |-> {},
                 sinkCalls |-> [d \in LogDestination |-> 0],
                 repeat |-> FALSE]

\* A variant of addFormat that inserts at the front of the list.
addFormat_AtFront(fmt) ==
    /\ fault = "none"
    /\ Len(m_formats) < MaxFormats
    /\ m_formats' = <<fmt>> \o m_formats
    /\ called' = LoggerCall("addFormat", 0, fmt, "EMPTY", "CONSOLE", "", "none")
    /\ UNCHANGED <<fault, m_logLevelFlags, m_destinations, sinkCalls>>
    /\ UNCHANGED <<valVars, flagVars, formatVars, appVars>>

\* Logger::addFormat: the validator runs, its bool is discarded.
addFormat(fmt) ==
    /\ fault = "none"
    /\ Len(m_formats) < MaxFormats
    /\ m_formats' = Append(m_formats, fmt)
    /\ called' = LoggerCall("addFormat", 0, fmt, "EMPTY", "CONSOLE", "", "none")
    /\ UNCHANGED <<fault, m_logLevelFlags, m_destinations, sinkCalls>>
    /\ UNCHANGED <<valVars, flagVars, formatVars, appVars>>

\* Logger::setFormat: the validator runs, its bool is discarded;
\* m_formats[index] with index >= size() is undefined behaviour: the write
\* lands outside the list, or the process dies.  Nothing is reported, the
\* function returns void and throws nothing.
setFormat(index, fmt) ==
    /\ fault = "none"
    /\ IF index < Len(m_formats)
       THEN /\ m_formats' = [m_formats EXCEPT ![index + 1] = fmt]
            /\ UNCHANGED fault
       ELSE /\ fault' \in {"oob_write", "crash"}
            /\ UNCHANGED m_formats
    /\ called' = LoggerCall("setFormat", index, fmt, "EMPTY", "CONSOLE", "",
                            "none")
    /\ UNCHANGED <<m_logLevelFlags, m_destinations, sinkCalls>>
    /\ UNCHANGED <<valVars, flagVars, formatVars, appVars>>

\* Logger::updateFormatParameter.  m_formats.at(index) throws
\* std::out_of_range when the index is not below size().  Otherwise
\* "auto format" is a copy of the element: the assignment to
\* format.parameters[token] changes the copy, which is destroyed at the
\* return; m_formats is not written.
updateFormatParameter(index, token, value) ==
    /\ fault = "none"
    /\ IF index >= Len(m_formats)
       THEN called' = [LoggerCall("updateFormatParameter", index, NoFormat,
                                  "EMPTY", "CONSOLE", "", "out_of_range")
                       EXCEPT !.token = token, !.value = value]
       ELSE LET copy == m_formats[index + 1]
                local == IF token \in DOMAIN copy.parameters
                         THEN [copy EXCEPT !.parameters[token] = value]
                         ELSE copy
            IN  called' = [LoggerCall("updateFormatParameter", index, local,
                                      "EMPTY", "CONSOLE", "", "none")
                           EXCEPT !.token = token, !.value = value]
    /\ UNCHANGED <<m_formats, fault, m_logLevelFlags, m_destinations, sinkCalls>>
    /\ UNCHANGED <<valVars, flagVars, formatVars, appVars>>

\* What the calls below leave alone.
ConfigFrame == UNCHANGED <<m_formats, fault, sinkCalls, valVars, flagVars, formatVars, appVars>>

\* A variant of addDestination that takes the destination out when it is
\* already there.
addDestination_Toggle(destination) ==
    /\ fault = "none"
    /\ m_destinations' = IF destination \in m_destinations
                         THEN m_destinations \ {destination}
                         ELSE m_destinations \cup {destination}
    /\ UNCHANGED m_logLevelFlags
    /\ called' = LoggerCall("addDestination", 0, NoFormat, "EMPTY",
                            destination, "", "none")
    /\ ConfigFrame

\* std::set::emplace
addDestination(destination) ==
    /\ fault = "none"
    /\ m_destinations' = m_destinations \cup {destination}
    /\ UNCHANGED m_logLevelFlags
    /\ called' = LoggerCall("addDestination", 0, NoFormat, "EMPTY",
                            destination, "", "none")
    /\ ConfigFrame

\* std::set::erase
removeDestination(destination) ==
    /\ fault = "none"
    /\ m_destinations' = m_destinations \ {destination}
    /\ UNCHANGED m_logLevelFlags
    /\ called' = LoggerCall("removeDestination", 0, NoFormat, "EMPTY",
                            destination, "", "none")
    /\ ConfigFrame

\* setLogLevelFlags(LogLevelFlags flags)
setLogLevelFlags(mask) ==
    /\ fault = "none"
    /\ m_logLevelFlags' = mask
    /\ UNCHANGED m_destinations
    /\ called' = LoggerCall("setLogLevelFlags", 0, NoFormat, "EMPTY",
                            "CONSOLE", "", "none")
    /\ ConfigFrame

\* setLogLevelFlags(std::vector<LogLevel> levels)
setLogLevelFlagsFromLevels(levels) ==
    /\ fault = "none"
    /\ m_logLevelFlags' = FlagsFromList(levels)
    /\ UNCHANGED m_destinations
    /\ called' = LoggerCall("setLogLevelFlagsFromLevels", 0, NoFormat,
                            "EMPTY", "CONSOLE", "", "none")
    /\ ConfigFrame

setLogLevelFlag(level, enable) ==
    /\ fault = "none"
    /\ m_logLevelFlags' = setFlag(m_logLevelFlags, level, enable)
    /\ UNCHANGED m_destinations
    /\ called' = LoggerCall("setLogLevelFlag", 0, NoFormat, level, "CONSOLE",
                            "", "none")
    /\ ConfigFrame

updateLogLevelFlags(mask) ==
    /\ fault = "none"
    /\ m_logLevelFlags' = updateFlags(m_logLevelFlags, mask)
    /\ UNCHANGED m_destinations
    /\ called' = LoggerCall("updateLogLevelFlags", 0, NoFormat, "EMPTY",
                            "CONSOLE", "", "none")
    /\ ConfigFrame

\* SimpleLoggerFactory::create: the logger under test becomes the one the
\* factory returns.
FactoryLevels == <<"INFO", "DEBUG", "WARN", "ERROR", "FATAL">>

create ==
    /\ fault = "none"
    /\ m_formats' = Append(<<>>, defaultFormat)
    /\ m_destinations' = {} \cup {"CONSOLE"}
    /\ m_logLevelFlags' = FlagsFromList(FactoryLevels)
    /\ called' = LoggerCall("create", 0, NoFormat, "EMPTY", "CONSOLE", "",
                            "none")
    /\ UNCHANGED <<fault, sinkCalls, valVars, flagVars, formatVars, appVars>>

\* The sinks take the rendered string once for every active destination.
Delivered(destinations) ==
    [d \in LogDestination |->
        IF d \in destinations THEN sinkCalls[d] + 1 ELSE sinkCalls[d]]

\* log(message, dynamicParameters, formatIndex, level): the level check,
\* the index check, then the delivery to every active destination.
log(message, formatIndex, level) ==
    /\ fault = "none"
    /\ (checkFlag(m_logLevelFlags, level) /\ formatIndex < Len(m_formats))
       => \A d \in m_destinations : sinkCalls[d] < MaxDelivered
    /\ IF ~checkFlag(m_logLevelFlags, level)
       THEN /\ UNCHANGED sinkCalls
            /\ called' = LoggerCall("log", formatIndex, NoFormat, level,
                                    "CONSOLE", message, "none")
       ELSE IF formatIndex >= Len(m_formats)
       THEN /\ UNCHANGED sinkCalls
            /\ called' = LoggerCall("log", formatIndex, NoFormat, level,
                                    "CONSOLE", message, "BadFormatIndex")
       ELSE /\ sinkCalls' = Delivered(m_destinations)
            /\ called' = LoggerCall("log", formatIndex, NoFormat, level,
                                    "CONSOLE", message, "none")
    /\ UNCHANGED <<m_formats, fault, m_logLevelFlags, m_destinations>>
    /\ UNCHANGED <<valVars, flagVars, formatVars, appVars>>

----------------------------------------------------------------------------
(* App: initialize, run and shutdown, and the hooks of the subclass. *)

\* `returned` before App::run has returned.
NoReturn == <<>>

\* What onUpdate or onRender calls on the App before it returns.
HookCalls == {"none", "shutdown", "initialize"}

\* App() = default: the member initialisers.
AppInit ==
    /\ m_running = FALSE
    /\ m_initialized = FALSE
    /\ m_windows = <<>>
    /\ onShutdownCalls = 0
    /\ appPc = "idle"
    /\ returned = NoReturn
    /\ appCalled = [op |-> "none", reentered |-> FALSE]

\* The members initialize and shutdown read and write, and the count of
\* onShutdown.
App ==
    [m_running |-> m_running, m_initialized |-> m_initialized,
     onShutdownCalls |-> onShutdownCalls]

AppStore(app) ==
    /\ m_running' = app.m_running
    /\ m_initialized' = app.m_initialized
    /\ onShutdownCalls' = app.onShutdownCalls

\* App::initialize, for the results of glfwInit() and of onInitialize().
initialize(app, glfwInit, onInitialize) ==
    IF app.m_initialized
    THEN app
    ELSE IF ~glfwInit
         THEN app
         ELSE [app EXCEPT !.m_initialized = onInitialize,
                          !.onShutdownCalls = IF onInitialize THEN 0 ELSE @]

\* A variant of shutdown that lost the test of line 61: onShutdown() runs on
\* every call.
shutdown_NoGuard(app) ==
    [app EXCEPT !.onShutdownCalls = @ + 1,
                !.m_initialized = FALSE,
                !.m_running = FALSE]

\* App::shutdown
shutdown(app) ==
    IF ~app.m_initialized
    THEN app
    ELSE [app EXCEPT !.onShutdownCalls = @ + 1,
                     !.m_initialized = FALSE,
                     !.m_running = FALSE]

\* onUpdate or onRender: the hook makes one of HookCalls and returns.
Hook(app, call, glfwInit, onInitialize) ==
    CASE call = "none" -> app
      [] call = "shutdown" -> shutdown(app)
      [] call = "initialize" -> initialize(app, glfwInit, onInitialize)

AppOthers == UNCHANGED <<valVars, loggerVars, flagVars, formatVars>>

\* initialize called from outside run.
App_initialize(glfwInit, onInitialize) ==
    /\ appPc = "idle"
    /\ AppStore(initialize(App, glfwInit, onInitialize))
    /\ appCalled' = [op |-> "initialize", reentered |-> FALSE]
    /\ UNCHANGED <<m_windows, appPc, returned>>
    /\ AppOthers

\* shutdown called from outside run.
App_shutdown ==
    /\ appPc = "idle"
    /\ AppStore(shutdown(App))
    /\ appCalled' = [op |-> "shutdown", reentered |-> FALSE]
    /\ UNCHANGED <<m_windows, appPc, returned>>
    /\ AppOthers

\* App::run, lines 23-31: the test of m_initialized, m_running = true, the
\* new window (its close flag is clear), the logger (a local of run).
run_Enter ==
    /\ appPc = "idle"
    /\ appCalled' = [op |-> "run", reentered |-> FALSE]
    /\ IF ~m_initialized
       THEN /\ returned' = <<-1>>
            /\ UNCHANGED <<m_running, m_windows, appPc>>
       ELSE /\ Len(m_windows) < MaxWindows
            /\ m_running' = TRUE
            /\ m_windows' = Append(m_windows, FALSE)
            /\ appPc' = "while"
            /\ UNCHANGED returned
    /\ UNCHANGED <<m_initialized, onShutdownCalls>>
    /\ AppOthers

\* App::run, line 33: while (m_running).
run_While ==
    /\ appPc = "while"
    /\ appPc' = IF m_running THEN "pollEvents" ELSE "shutdown"
    /\ UNCHANGED <<m_running, m_initialized, m_windows, onShutdownCalls,
                   returned, appCalled>>
    /\ AppOthers

\* App::run, lines 39-41: glfwPollEvents processes the pending events; a
\* close request sets the close flag of its window.
run_pollEvents(closed) ==
    /\ appPc = "pollEvents"
    /\ m_windows' = [i \in DOMAIN m_windows |-> m_windows[i] \/ i \in closed]
    /\ appPc' = "onUpdate"
    /\ UNCHANGED <<m_running, m_initialized, onShutdownCalls, returned,
                   appCalled>>
    /\ AppOthers

\* App::run, line 43: onUpdate(deltaTime).
run_onUpdate(call, glfwInit, onInitialize) ==
    /\ appPc = "onUpdate"
    /\ AppStore(Hook(App, call, glfwInit, onInitialize))
    /\ appCalled' = [appCalled EXCEPT
                        !.reentered = @ \/ (call = "shutdown" /\ m_initialized)]
    /\ appPc' = "onRender"
    /\ UNCHANGED <<m_windows, returned>>
    /\ AppOthers

\* App::run, line 44: onRender().
run_onRender(call, glfwInit, onInitialize) ==
    /\ appPc = "onRender"
    /\ AppStore(Hook(App, call, glfwInit, onInitialize))
    /\ appCalled' = [appCalled EXCEPT
                        !.reentered = @ \/ (call = "shutdown" /\ m_initialized)]
    /\ appPc' = "shouldClose"
    /\ UNCHANGED <<m_windows, returned>>
    /\ AppOthers

\* App::run, lines 47-53: any window whose close flag is set ends the loop.
run_shouldClose ==
    /\ appPc = "shouldClose"
    /\ m_running' = IF \E i \in DOMAIN m_windows : m_windows[i]
                    THEN FALSE
                    ELSE m_running
    /\ appPc' = "while"
    /\ UNCHANGED <<m_initialized, m_windows, onShutdownCalls, returned,
                   appCalled>>
    /\ AppOthers

\* App::run, lines 56-57: shutdown(); return 0.
run_Return ==
    /\ appPc = "shutdown"
    /\ AppStore(shutdown(App))
    /\ returned' = <<0>>
    /\ appPc' = "idle"
    /\ UNCHANGED <<m_windows, appCalled>>
    /\ AppOthers

\* The steps of the thread that is inside run.
RunSteps ==
    \/ run_While
    \/ \E closed \in SUBSET DOMAIN m_windows : run_pollEvents(closed)
    \/ \E call \in HookCalls, glfwInit \in BOOLEAN, onInitialize \in BOOLEAN :
           run_onUpdate(call, glfwInit, onInitialize)
    \/ \E call \in HookCalls, glfwInit \in BOOLEAN, onInitialize \in BOOLEAN :
           run_onRender(call, glfwInit, onInitialize)
    \/ run_shouldClose
    \/ run_Return

----------------------------------------------------------------------------
(* Specifications. *)

\* The Logger, driven by any sequence of calls.
Init == LoggerInit /\ ValIdle /\ FlagsInit /\ FormatIdle /\ AppInit

Next ==
    \/ \E fmt \in CandidateFormats : addFormat(fmt)
    \/ \E index \in 0..MaxFormats, fmt \in CandidateFormats : setFormat(index, fmt)
    \/ \E index \in 0..MaxFormats, token \in TokenArguments, value \in TokenValues :
           updateFormatParameter(index, token, value)

Spec == Init /\ [][Next]_vars

\* validateFormatParameters on every input of the bounded sets.
InitValidate == ValInit /\ LoggerInit /\ FlagsInit /\ FormatIdle /\ AppInit

NextValidate == Validate

SpecValidate == InitValidate /\ [][NextValidate]_vars

\* The escape harness on every input of its bounded sets.
InitEscape == EscInit /\ LoggerInit /\ FlagsInit /\ FormatIdle /\ AppInit

NextEscape ==
    \/ Validate
    \/ \E p \in InsertPoints(format), e \in EscapedInserts : InsertEscaped(p, e)
    \/ \E k \in 1..Len(format) : RemoveEscaped(k)

SpecEscape == InitEscape /\ [][NextEscape]_vars

\* One Flags object, driven by any sequence of its operations.
InitFlags == FlagsInit /\ LoggerInit /\ ValIdle /\ FormatIdle /\ AppInit

NextFlags ==
    \/ Flags_Default
    \/ \E mask \in RawMasks : Flags_FromMask(mask)
    \/ \E list \in LevelLists : Flags_FromList(list)
    \/ \E mask \in RawMasks : Flags_updateFlags(mask)
    \/ \E mask \in RawMasks : Flags_setFlags(mask)
    \/ \E flag \in LogLevel, enable \in BOOLEAN : Flags_setFlag(flag, enable)
    \/ \E flag \in LogLevel : Flags_OrFlag(flag)
    \/ \E flag \in LogLevel : Flags_AssignFlag(flag)
    \/ \E mask \in RawMasks : Flags_AndFlags(mask)
    \/ \E flag \in LogLevel : Flags_AndFlag(flag)
    \/ \E mask \in RawMasks : Flags_unsetFlags(mask)
    \/ \E flag \in LogLevel : Flags_unsetFlag(flag)
    \/ Flags_reset

SpecFlags == InitFlags /\ [][NextFlags]_vars

\* One Format object, driven by any sequence of setStaticToken calls.
InitFormat == FormatInit /\ LoggerInit /\ ValIdle /\ FlagsInit /\ AppInit

NextFormat ==
    \E token \in TokenArguments, value \in TokenValues :
        Format_setStaticToken(token, value)

SpecFormat == InitFormat /\ [][NextFormat]_vars

\* The Logger's configuration and dispatch, driven by any sequence of calls.
NextLog ==
    \/ create
    \/ \E destination \in LogDestination : addDestination(destination)
    \/ \E destination \in LogDestination : removeDestination(destination)
    \/ \E mask \in LoggerMasks : setLogLevelFlags(mask)
    \/ \E levels \in LoggerLevelLists : setLogLevelFlagsFromLevels(levels)
    \/ \E level \in LogLevel, enable \in BOOLEAN : setLogLevelFlag(level, enable)
    \/ \E mask \in LoggerMasks : updateLogLevelFlags(mask)
    \/ \E message \in Messages, formatIndex \in 0..1, level \in LogLevel :
           log(message, formatIndex, level)

SpecLog == Init /\ [][NextLog]_vars

\* The App, driven by any sequence of initialize, run and shutdown, with
\* the hooks calling back into it.
NextApp ==
    \/ \E glfwInit \in BOOLEAN, onInitialize \in BOOLEAN :
           App_initialize(glfwInit, onInitialize)
    \/ App_shutdown
    \/ run_Enter
    \/ run_While
    \/ \E closed \in SUBSET DOMAIN m_windows : run_pollEvents(closed)
    \/ \E call \in HookCalls, glfwInit \in BOOLEAN, onInitialize \in BOOLEAN :
           run_onUpdate(call, glfwInit, onInitialize)
    \/ \E call \in HookCalls, glfwInit \in BOOLEAN, onInitialize \in BOOLEAN :
           run_onRender(call, glfwInit, onInitialize)
    \/ run_shouldClose
    \/ run_Return

SpecApp == Init /\ [][NextApp]_vars

\* run is sequential code on the calling thread: once inside run, the thread
\* takes the next step of run (the hooks return).
SpecAppLive == SpecApp /\ WF_vars(RunSteps)

----------------------------------------------------------------------------
(* What the rule table says of a placeholder, read off its text alone. *)

\* The un-escaped ones of the placeholders ms, in order.
Unescaped(ms) == SelectSeq(ms, LAMBDA m : ~m.esc)

\* What a caller gets to see of a call: the outcome and the three sets.
Outcome(r) ==
    [valid |-> r.valid, reason |-> r.reason, staticTokens |-> r.staticTokens,
     dynamicTokens |-> r.dynamicTokens, specialTokens |-> r.specialTokens]

ToSet(v) == {v[k] : k \in 1..Len(v)}

Reserved(m) == m.name \in specialTokenSet

\* The set a placeholder of this shape belongs to.
ClassOf(m) ==
    IF m.dyn THEN "dynamic"
    ELSE IF Reserved(m) /\ ~m.ovr THEN "special"
    ELSE "static"

\* No rule rejects the placeholder on its own.
LegalShape(m) ==
    /\ Len(m.name) > 0
    /\ IF Reserved(m) THEN (m.dyn => m.ovr) ELSE ~m.ovr

\* %{*R}% with R reserved.
BareDynamicReserved(m) == ~m.esc /\ Reserved(m) /\ m.dyn /\ ~m.ovr

\* %{!N}% or %{!*N}% with N not reserved.
OverrideNonReserved(m) == ~m.esc /\ ~Reserved(m) /\ m.ovr

\* Placeholders nothing is wrong with: every un-escaped one is legal,
\* no name occurs twice, %{MESSAGE}% is there, no reserved name is
\* overridden into a static token, every static name is bound and the
\* parameter map binds nothing else.
CleanInput(ms, params) ==
    LET u == Unescaped(ms)
    IN  /\ \A k \in 1..Len(u) : LegalShape(u[k]) /\ (u[k].ovr => u[k].dyn)
        /\ \A j, k \in 1..Len(u) : j # k => u[j].name # u[k].name
        /\ \E k \in 1..Len(u) : u[k].name = MESSAGE /\ ~u[k].ovr /\ ~u[k].dyn
        /\ DOMAIN params = {u[k].name : k \in {j \in 1..Len(u) : ClassOf(u[j]) = "static"}}

\* The scan loop run on the first n placeholders of ms only.
ScanOfPrefix(ms, n) == ScanLoop(ScanStart, SubSeq(ms, 1, n), 1).ret

\* The scan loop went through every placeholder without rejecting one.
ScanCompleted(ms) == ScanOfPrefix(ms, Len(ms)) = "none"

\* The positions of the static names the parameter map does not bind.
UnboundStatic(staticTokens, params) ==
    {k \in 1..Len(staticTokens) : staticTokens[k] \notin DOMAIN params}

Min(S) == CHOOSE x \in S : \A y \in S : x <= y

----------------------------------------------------------------------------
(* Claims. *)

\* C1: every template held in Logger::m_formats passes validation (a call
\* given a template that fails validation leaves the list as it was).
C1_StoredFormatsValid ==
    \A i \in 1..Len(m_formats) :
        validateFormatParameters(m_formats[i].formatString,
                                 m_formats[i].parameters).valid

\* C2: "[%{LEVEL}%][%{TIME}%]: %{MESSAGE}%" with the empty parameter map is
\* accepted; LEVEL and TIME are special, nothing is static or dynamic.
C2_BracketFormatAccepted ==
    (pc = "validated" /\ format = BracketFormat /\ DOMAIN parameters = {})
    => /\ result.valid
       /\ {LEVEL, TIME} \subseteq ToSet(result.specialTokens)
       /\ ToSet(result.specialTokens) \subseteq specialTokenSet
       /\ result.staticTokens = <<>>
       /\ result.dynamicTokens = <<>>

\* C3: a format that satisfies every other rule and whose MESSAGE is the
\* plain %{MESSAGE}% is accepted, MESSAGE being special only.
C3_PlainMessageAccepted ==
    (pc = "validated" /\ CleanInput(result.matches, parameters))
    => /\ result.valid
       /\ MESSAGE \notin ToSet(result.staticTokens)
       /\ MESSAGE \notin ToSet(result.dynamicTokens)

\* C4: a format with no un-escaped MESSAGE placeholder is rejected, with
\* any other placeholders and any parameter map.
C4_NoMessageRejected ==
    LET u == Unescaped(result.matches)
    IN  (pc = "validated" /\ \A k \in 1..Len(u) : u[k].name # MESSAGE)
        => ~result.valid

\* C4: ... reached with an escaped MESSAGE and a reserved token in the string.
C4_Witness ==
    LET ms == result.matches
    IN  /\ pc = "validated"
        /\ \A k \in 1..Len(ms) : ms[k].name = MESSAGE => ms[k].esc
        /\ \E k \in 1..Len(ms) : ms[k].name = MESSAGE
        /\ Len(result.specialTokens) = 1
        /\ result.reason = "MissingMessage"

\* C5: when a name occurs in two un-escaped placeholders of different
\* classes (and every placeholder is legal on its own), validation fails as
\* a duplicate token, whichever of the two comes first.
C5_DifferentClassesDuplicate ==
    LET u == Unescaped(result.matches)
    IN  (/\ pc = "validated"
         /\ \A k \in 1..Len(u) : LegalShape(u[k])
         /\ \E j, k \in 1..Len(u) :
                j < k /\ u[j].name = u[k].name /\ ClassOf(u[j]) # ClassOf(u[k]))
        => (~result.valid /\ result.reason = "DuplicateToken")

C7_EscapedSkipped ==
    pc \in {"inserted", "removed"} => Outcome(result) = Outcome(before)

\* C7: ... reached by inserting \%{MESSAGE}% into a string whose %{MESSAGE}%
\* and one more reserved token were classified.
C7_Witness ==
    LET ms == result.matches
    IN  /\ pc = "inserted"
        /\ \E k \in 1..Len(ms) : ms[k].esc /\ ms[k].name = MESSAGE
        /\ MESSAGE \in ToSet(result.specialTokens)
        /\ Len(result.specialTokens) = 2

\* C8 as stated: a string with an un-escaped %{*R}%, R reserved, fails as
\* an illegal dynamic marker whatever else it holds.
C8_AlwaysIllegalDynamicMarker ==
    LET ms == result.matches
    IN  (pc = "validated" /\ \E k \in 1..Len(ms) : BareDynamicReserved(ms[k]))
        => (~result.valid /\ result.reason = "IllegalDynamicMarker")

\* C8 as amended: such a string fails validation with any parameter map;
\* the failure is the illegal dynamic marker unless the scan rejects an
\* earlier placeholder first, and then it is that earlier rejection.
C8_IllegalDynamicMarkerUnlessEarlier ==
    LET ms == result.matches
    IN  pc = "validated"
        => \A k \in 1..Len(ms) :
              (BareDynamicReserved(ms[k])
               /\ \A j \in 1..(k - 1) : ~BareDynamicReserved(ms[j]))
              => /\ ~result.valid
                 /\ result.reason = IF ScanOfPrefix(ms, k - 1) = "none"
                                    THEN "IllegalDynamicMarker"
                                    ELSE ScanOfPrefix(ms, k - 1)

\* C8: ... reached with two accepted placeholders before %{*R}%.
C8_Witness ==
    LET ms == result.matches
    IN  /\ pc = "validated"
        /\ Len(ms) = 3
        /\ BareDynamicReserved(ms[3])
        /\ Len(result.specialTokens) + Len(result.dynamicTokens) = 2
        /\ result.reason = "IllegalDynamicMarker"

\* C9 as stated: a string with an un-escaped %{!N}% or %{!*N}%, N not
\* reserved, fails as an illegal override whatever else it holds.
C9_AlwaysIllegalOverride ==
    LET ms == result.matches
    IN  (pc = "validated" /\ \E k \in 1..Len(ms) : OverrideNonReserved(ms[k]))
        => (~result.valid /\ result.reason = "IllegalOverride")

\* C9 as amended: such a string fails validation with any parameter map;
\* the failure is the illegal override unless the scan rejects an earlier
\* placeholder first, and then it is that earlier rejection.
C9_IllegalOverrideUnlessEarlier ==
    LET ms == result.matches
    IN  pc = "validated"
        => \A k \in 1..Len(ms) :
              (OverrideNonReserved(ms[k])
               /\ \A j \in 1..(k - 1) : ~OverrideNonReserved(ms[j]))
              => /\ ~result.valid
                 /\ result.reason = IF ScanOfPrefix(ms, k - 1) = "none"
                                    THEN "IllegalOverride"
                                    ELSE ScanOfPrefix(ms, k - 1)

\* C9: ... reached with %{!*P1}% after two accepted placeholders.
C9_Witness ==
    LET ms == result.matches
    IN  /\ pc = "validated"
        /\ Len(ms) = 3
        /\ OverrideNonReserved(ms[3]) /\ ms[3].dyn
        /\ Len(result.specialTokens) + Len(result.staticTokens) = 2
        /\ P1 \in DOMAIN parameters
        /\ result.reason = "IllegalOverride"

\* C10: a string with %{!*TIME}% and nothing else wrong, validated with a
\* parameter map that binds TIME too, is rejected because of TIME
\* (a duplicate, a reserved name bound as a parameter).
C10_DynamicTimeBoundRejected ==
    LET u == Unescaped(result.matches)
    IN  (/\ pc = "validated"
         /\ TIME \in DOMAIN parameters
         /\ CleanInput(result.matches, [n \in DOMAIN parameters \ {TIME} |-> parameters[n]])
         /\ \E k \in 1..Len(u) : u[k].name = TIME /\ u[k].ovr /\ u[k].dyn)
        => (~result.valid
            /\ result.reason \in {"DuplicateToken", "ReservedNameMisuse"})

C13_OverriddenLevelAccepted ==
    LET u == Unescaped(result.matches)
    IN  (/\ pc = "validated"
         /\ Len(u) = 2
         /\ \E k \in 1..2 : u[k].name = LEVEL /\ u[k].ovr /\ ~u[k].dyn
         /\ \E k \in 1..2 : u[k].name = MESSAGE /\ ~u[k].ovr /\ ~u[k].dyn
         /\ DOMAIN parameters = {LEVEL})
        => /\ result.valid
           /\ LEVEL \in ToSet(result.staticTokens)
           /\ MESSAGE \in ToSet(result.specialTokens)

\* C14: a format with an un-escaped placeholder of empty name, %{}% or
\* %{*}%, in which nothing else is wrong (the named placeholders are legal
\* and of different names, the named static ones are bound and not
\* reserved) fails validation as an empty token.
C14_EmptyNameRejected ==
    LET u == Unescaped(result.matches)
        named == {k \in 1..Len(u) : Len(u[k].name) > 0}
    IN  (/\ pc = "validated"
         /\ \E k \in 1..Len(u) : Len(u[k].name) = 0
         /\ \A k \in 1..Len(u) : Len(u[k].name) = 0 => ~u[k].ovr
         /\ \A k \in named : LegalShape(u[k])
         /\ \A j, k \in 1..Len(u) : j # k => u[j].name # u[k].name
         /\ \A k \in named : ClassOf(u[k]) = "static"
                => (u[k].name \in DOMAIN parameters /\ ~Reserved(u[k])))
        => (~result.valid /\ result.reason = "EmptyToken")

\* %{!MESSAGE}% or %{!*MESSAGE}%.
OverriddenMessage(m) == ~m.esc /\ m.name = MESSAGE /\ m.ovr

\* C15: a format with an un-escaped %{!MESSAGE}% or %{!*MESSAGE}% is
\* rejected with any parameter map; when the scan completes with MESSAGE
\* in the static set the rejection is in the check of the static names
\* against the parameter map, bound or not.
C15_OverriddenMessageRejected ==
    LET ms == result.matches
    IN  (pc = "validated" /\ \E k \in 1..Len(ms) : OverriddenMessage(ms[k]))
        => /\ ~result.valid
           /\ (ScanCompleted(ms) /\ MESSAGE \in ToSet(result.staticTokens))
              => result.reason \in {"EmptyToken", "MissingParameter",
                                    "ReservedNameMisuse"}

\* C15: ... reached with %{!MESSAGE}% as the only static token, MESSAGE
\* bound by the parameter map.
C15_Witness ==
    /\ pc = "validated"
    /\ \E k \in 1..Len(result.matches) : OverriddenMessage(result.matches[k])
    /\ result.staticTokens = <<MESSAGE>>
    /\ MESSAGE \in DOMAIN parameters
    /\ result.reason = "ReservedNameMisuse"

\* C19: a Flags in which only EMPTY has been selected, by the constructor
\* from the list [EMPTY] or by setFlag(EMPTY, true) on a mask of 0, is the
\* empty set: its mask is 0 and checkFlag is false for every level.
C19_EmptyIsNoLevel ==
    (\/ flagsCalled.op = "FlagsFromList" /\ flagsCalled.levels = <<"EMPTY">>
     \/ /\ flagsCalled.op = "setFlag"
        /\ flagsCalled.flag = "EMPTY"
        /\ flagsCalled.enable
        /\ flagsCalled.old = {})
    => /\ flags = {}
       /\ \A level \in LogLevel : ~checkFlag(flags, level)

\* The bit positions that are values of members of LogLevel.
LevelBits == {Underlying(level) : level \in LogLevel}

\* C20: after any sequence of Flags operations the mask has no bit set at
\* a position that is not the value of a member of LogLevel.
C20_NoOutOfRangeBit == flags \subseteq LevelBits

\* C16: addFormat appends the template as the last element of
\* Logger::m_formats: the list is one longer, the template is at the index
\* that was the length, every earlier element is as it was.  (The code
\* appends every template, the valid ones among them.)
C16_AddFormatAppends ==
    called.op = "addFormat"
    => /\ Len(m_formats) = Len(called.formats) + 1
       /\ m_formats[Len(called.formats) + 1] = called.fmt
       /\ \A i \in 1..Len(called.formats) : m_formats[i] = called.formats[i]

\* C16: ... reached by adding the bracket format to a list of two other
\* templates.
C16_Witness ==
    /\ called.op = "addFormat"
    /\ called.fmt.formatString = BracketFormat
    /\ Len(called.formats) = 2
    /\ \A i \in 1..2 : called.formats[i] # called.fmt
    /\ Len(m_formats) = 3

\* C17: setFormat with an index that is not below the number of formats
\* reports an error and leaves the list as it was: no silent no-op, no
\* write outside the list.
C17_BadIndexReported ==
    (called.op = "setFormat" /\ called.index >= Len(called.formats))
    => /\ called.error = "BadFormatIndex"
       /\ fault = "none"
       /\ m_formats = called.formats

C21_DestinationsIdempotent ==
    /\ (called.op \in DestinationOps /\ called.repeat)
       => m_destinations = called.destinations
    /\ called.op = "removeDestination"
       => called.destination \notin m_destinations

\* C21: ... reached by addDestination twice in a row on a set that holds
\* the other destination too.
C21_Witness ==
    /\ called.op = "addDestination"
    /\ called.repeat
    /\ called.destination \in m_destinations
    /\ Cardinality(m_destinations) = 2

\* The levels checkFlag reports as enabled.
EnabledLevels(f) == {level \in LogLevel : checkFlag(f, level)}

\* C22: the logger SimpleLoggerFactory::create returns has exactly INFO
\* and DEBUG enabled, the console as its only destination and the default
\* format as its only format.
C22_FactoryDefaults ==
    called.op = "create"
    => /\ EnabledLevels(m_logLevelFlags) = {"INFO", "DEBUG"}
       /\ m_destinations = {"CONSOLE"}
       /\ m_formats = <<defaultFormat>>

\* The set of levels a mask stands for: the levels whose bit is 1.
LevelsOf(mask) == {level \in LogLevel : Underlying(level) \in mask}

\* C23: Flags refines a set of levels.  After every operation the levels
\* of the mask are what the set operation gives on the levels of the mask
\* before (and of the argument): setFlag(f, true) inserts f, setFlag(f,
\* false) and unsetFlag(f) remove f and leave every other level as it was,
\* updateFlags is union, operator&= is intersection, unsetFlags is
\* difference, reset gives the empty set, the list constructor gives the
\* set of the listed levels, and checkFlag(f) is membership of f.
C23_FlagsRefineSet ==
    LET c == flagsCalled
        now == LevelsOf(flags)
        was == LevelsOf(c.old)
        arg == LevelsOf(c.mask)
    IN  /\ \A f \in LogLevel : checkFlag(flags, f) <=> f \in now
        /\ (c.op = "setFlag" /\ c.enable) => now = was \cup {c.flag}
        /\ (c.op = "setFlag" /\ ~c.enable) => now = was \ {c.flag}
        /\ c.op = "unsetFlag" => now = was \ {c.flag}
        /\ c.op = "updateFlags" => now = was \cup arg
        /\ c.op = "OrFlag" => now = was \cup {c.flag}
        /\ c.op = "AndFlags" => now = was \cap arg
        /\ c.op = "unsetFlags" => now = was \ arg
        /\ c.op = "reset" => now = {}
        /\ c.op = "FlagsFromList" => now = ToSet(c.levels)

\* C23: ... reached by setFlag(f, false) on a mask that holds f, another
\* level and a bit that is no level's.
C23_Witness ==
    /\ flagsCalled.op = "setFlag"
    /\ ~flagsCalled.enable
    /\ Underlying(flagsCalled.flag) \in flagsCalled.old
    /\ LevelsOf(flags) # {}
    /\ 6 \in flags

\* C24: setStaticToken(name, value) changes only the value bound to name.
\* When name is a key of the static token map its value becomes value and
\* every other binding is as it was; when it is not a key the object is
\* unchanged; in both cases the key set, the dynamic and special sets, the
\* format string and the valid flag are unchanged.
C24_SetStaticTokenFrame ==
    LET c == formatCalled
        old == c.old
        now == formatObject
    IN  c.op = "setStaticToken"
        => /\ DOMAIN now.m_staticTokens = DOMAIN old.m_staticTokens
           /\ now.m_dynamicTokens = old.m_dynamicTokens
           /\ now.m_specialTokens = old.m_specialTokens
           /\ now.m_formatString = old.m_formatString
           /\ now.m_isValid = old.m_isValid
           /\ \A k \in DOMAIN old.m_staticTokens :
                 now.m_staticTokens[k] =
                    IF k = c.token THEN c.value ELSE old.m_staticTokens[k]
           /\ c.token \notin DOMAIN old.m_staticTokens => now = old

\* C24: ... reached by giving one of two static tokens a new value.
C24_Witness ==
    LET c == formatCalled
    IN  /\ c.op = "setStaticToken"
        /\ DOMAIN c.old.m_staticTokens = {P1, LEVEL}
        /\ c.token = P1
        /\ c.old.m_staticTokens[P1] # c.value
        /\ formatObject.m_staticTokens[P1] = c.value

\* C25: after updateFormatParameter(index, token, value) with the index in
\* bounds and token a parameter of the format at that index, the format
\* stored at that index binds token to value, and every other stored
\* format is as it was.
C25_StoredParameterUpdated ==
    LET c == called
    IN  (/\ c.op = "updateFormatParameter"
         /\ c.index < Len(c.formats)
         /\ c.token \in DOMAIN c.formats[c.index + 1].parameters)
        => /\ Len(m_formats) = Len(c.formats)
           /\ m_formats[c.index + 1].parameters[c.token] = c.value
           /\ \A i \in 1..Len(c.formats) :
                 i # c.index + 1 => m_formats[i] = c.formats[i]

\* C26: across any sequence of initialize, run and shutdown calls, with
\* shutdown (and initialize) also called from onUpdate and onRender inside
\* the run loop: onShutdown is invoked at most once since onInitialize last
\* returned true; when run has returned 0 (after its own final shutdown),
\* m_running and m_initialized are both false; and once the close flag of
\* some window is set while the thread is inside run, run returns 0.
C26_ShutdownOncePerInitialize == onShutdownCalls <= 1

C26_RunReturnsStopped ==
    (appPc = "idle" /\ appCalled.op = "run" /\ returned = <<0>>)
        => (~m_running /\ ~m_initialized)

C26_WindowClosing ==
    appPc # "idle" /\ \E i \in DOMAIN m_windows : m_windows[i]

C26_RunReturnedZero == appPc = "idle" /\ returned = <<0>>

C26_Lifecycle ==
    /\ [](C26_ShutdownOncePerInitialize /\ C26_RunReturnsStopped)
    /\ C26_WindowClosing ~> C26_RunReturnedZero

\* C26 happens: run has returned 0 after a hook called shutdown on the
\* initialized App inside the loop and a window's close flag was set;
\* onShutdown ran once.
C26_Witness ==
    /\ appPc = "idle"
    /\ appCalled = [op |-> "run", reentered |-> TRUE]
    /\ returned = <<0>>
    /\ onShutdownCalls = 1
    /\ \E i \in DOMAIN m_windows : m_windows[i]
    /\ ~m_running
    /\ ~m_initialized

============================================================================
